---- MODULE Spec2Model ----
(***************************************************************************)
(* A model of verify-lfdt-licenses.js: the command line, the acquisition   *)
(* of package.json, the per-dependency metadata lookups, the compliance    *)
(* decision, the three result buckets and the process exit code.           *)
(*                                                                         *)
(* Strings that the code takes apart (the source selector, repository      *)
(* names, npm output, version ranges) are sequences of tokens; a token is  *)
(* a run of characters that no pattern of the code splits.  JavaScript     *)
(* values that may be null, undefined or NaN are tagged records.           *)
(***************************************************************************)
EXTENDS Integers, Sequences, FiniteSets, TLC

VARIABLES
  pc,            \* position of the single thread of control
  args,          \* process.argv.slice(2)
  source,        \* the source selector
  route,         \* the branch getPackageJson took: "none", "local" or "github"
  io,            \* the reads getPackageJson attempted, in order, with their outcome
  packageJson,   \* the parsed manifest, or Null
  manifestFailed,\* getPackageJson reached its catch block
  allDependencies, \* Object.entries(allDependencies): <<name, version>> pairs
  idx,           \* number of entries the loop has taken
  cur,           \* locals of the running checkPackageCompliance call
  varIdx,        \* index of the next repoVariations entry getGitHubStats tries
  trail,         \* external lookups made for the current dependency, in order
  results,       \* the three buckets
  banner,        \* the closing ERROR / WARNING / SUCCESS line, "" before it
  exitCode       \* -1 while running, else the process exit status

vars == <<pc, args, source, route, io, packageJson, manifestFailed,
          allDependencies, idx, cur, varIdx, trail, results, banner, exitCode>>

----------------------------------------------------------------------------
(* JavaScript values *)

Null == [t |-> "null"]
Undefined == [t |-> "undefined"]
NaN == [t |-> "NaN"]
Num(n) == [t |-> "number", v |-> n]
Str(s) == [t |-> "string", v |-> s]

\* a >= n for a number or undefined/NaN operand a (undefined converts to NaN)
GE(a, n) == a.t = "number" /\ a.v >= n

\* !x for a string-or-null value
Falsy(x) == IF x.t = "string" THEN x.v = <<>> ELSE TRUE

----------------------------------------------------------------------------
(* Token strings *)

Max(S) == CHOOSE x \in S : \A y \in S : y <= x
Min(S) == CHOOSE x \in S : \A y \in S : x <= y

Includes(s, tok) == \E i \in 1..Len(s) : s[i] = tok

\* the last position of the longest run of tokens outside stop starting at i
\* (i - 1 when the run is empty)
RunEnd(s, i, stop) ==
  Max({j \in (i - 1)..Len(s) : \A k \in i..j : s[k] \notin stop})

\* the same for the longest run of tokens inside class
RunEndIn(s, i, class) ==
  Max({j \in (i - 1)..Len(s) : \A k \in i..j : s[k] \in class})

EndsWith(s, suf) ==
  /\ Len(s) >= Len(suf)
  /\ SubSeq(s, Len(s) - Len(suf) + 1, Len(s)) = suf

\* s.replace(/\.git$/, '')
StripDotGit(s) ==
  IF Len(s) > 0 /\ s[Len(s)] = ".git" THEN SubSeq(s, 1, Len(s) - 1) ELSE s

\* s.replace(/[\^~]/, ''): the first caret or tilde is removed
StripRange(s) ==
  LET hits == {i \in 1..Len(s) : s[i] \in {"^", "~"}}
  IN IF hits = {} THEN s
     ELSE SubSeq(s, 1, Min(hits) - 1) \o SubSeq(s, Min(hits) + 1, Len(s))

\* s.trim(): leading and trailing whitespace tokens are removed
WhiteSpace == {" ", "\n"}
Trim(s) ==
  LET keep == {i \in 1..Len(s) : s[i] \notin WhiteSpace}
  IN IF keep = {} THEN <<>> ELSE SubSeq(s, Min(keep), Max(keep))

----------------------------------------------------------------------------
(* Policy *)

\* the tokens of every license string below hold no whitespace to trim
APPROVED_LICENSES ==
  { <<"BSD-2-Clause">>, <<"BSD-2-Clause-FreeBSD">>, <<"BSD-3-Clause">>,
    <<"MIT">>, <<"ISC">>, <<"Python-2.0">>, <<"BSL-1.0">>, <<"Boost">>,
    <<"bzip2-1.0.6">>, <<"OLDAP-2.7">>, <<"OLDAP-2.8">>, <<"PostgreSQL">>,
    <<"TCL">>, <<"W3C">>, <<"X11">>, <<"Zlib">>, <<"OFL-1.0">>, <<"OFL-1.1">>,
    <<"CC-BY-1.0">>, <<"CC-BY-2.0">>, <<"CC-BY-2.5">>, <<"CC-BY-3.0">>,
    <<"Public", " ", "Domain">>, <<"Unlicense">> }

\* license === 'Apache-2.0' || license === 'Apache 2.0'
AutoApproved == { <<"Apache-2.0">>, <<"Apache", " ", "2.0">> }

UnknownLicense == <<"Unknown">>

MinAgeMonths == 12
MinPopularity == 10

----------------------------------------------------------------------------
(* Manifest acquisition *)

Throw == [t |-> "throw"]

HelpFlags == { <<"--help">>, <<"-h">> }

\* source.includes('github.com') || source.includes('/')
RoutesToGitHub(src) == Includes(src, "github.com") \/ Includes(src, "/")

\* /github\.com\/([^\/]+)\/([^\/\?]+)/ : the places where it matches
UrlMatches(url) ==
  {i \in 1..Len(url) :
     /\ url[i] = "github.com"
     /\ i + 1 <= Len(url) /\ url[i + 1] = "/"
     /\ LET e1 == RunEnd(url, i + 2, {"/"})
        IN /\ e1 >= i + 2
           /\ e1 + 1 <= Len(url)
           /\ RunEnd(url, e1 + 2, {"/", "?"}) >= e1 + 2}

\* /^([^\/]+)\/([^\/]+)$/ : the places of its one slash
ShorthandMatches(url) ==
  {i \in 2..(Len(url) - 1) :
     /\ url[i] = "/"
     /\ \A k \in 1..Len(url) : url[k] = "/" => k = i}

\* the owner and repo fetchPackageJsonFromGitHub extracts; empty when no
\* pattern matches
OwnerRepo(url) ==
  IF UrlMatches(url) # {}
  THEN LET i == Min(UrlMatches(url))
           e1 == RunEnd(url, i + 2, {"/"})
           e2 == RunEnd(url, e1 + 2, {"/", "?"})
       IN [owner |-> SubSeq(url, i + 2, e1),
           repo |-> StripDotGit(SubSeq(url, e1 + 2, e2))]
  ELSE IF ShorthandMatches(url) # {}
  THEN LET i == Min(ShorthandMatches(url))
       IN [owner |-> SubSeq(url, 1, i - 1),
           repo |-> StripDotGit(SubSeq(url, i + 1, Len(url)))]
  ELSE [owner |-> <<>>, repo |-> <<>>]

\* fetchPackageJsonFromGitHub: gh is the outcome of gh api | base64 -d then
\* JSON.parse, curl that of the raw.githubusercontent.com fallback
FetchPackageJsonFromGitHub(url, gh, curl) ==
  IF OwnerRepo(url).owner = <<>> \/ OwnerRepo(url).repo = <<>> THEN Throw
  ELSE IF gh # Throw THEN gh
  ELSE curl

\* a read that answers a failure with an empty manifest
ReadPackageJsonOrEmpty(src, fs, gh, curl) ==
  LET r == IF RoutesToGitHub(src) THEN FetchPackageJsonFromGitHub(src, gh, curl)
           ELSE fs
  IN IF r = Throw
     THEN [name |-> "", version |-> "", dependencies |-> <<>>, devDependencies |-> <<>>]
     ELSE r

\* the value getPackageJson's try block produces: a manifest, or Throw
ReadPackageJson(src, fs, gh, curl) ==
  IF RoutesToGitHub(src) THEN FetchPackageJsonFromGitHub(src, gh, curl)
  ELSE fs

\* the reads behind ReadPackageJson, in the order they are attempted
ReadAttempts(src, fs, gh, curl) ==
  IF ~RoutesToGitHub(src) THEN <<[via |-> "fs", failed |-> fs = Throw]>>
  ELSE IF OwnerRepo(src).owner = <<>> \/ OwnerRepo(src).repo = <<>> THEN <<>>
  ELSE IF gh # Throw THEN <<[via |-> "gh", failed |-> FALSE]>>
  ELSE <<[via |-> "gh", failed |-> TRUE], [via |-> "curl", failed |-> curl = Throw]>>

\* { ...packageJson.dependencies, ...packageJson.devDependencies } as the
\* entries Object.entries lists: a colliding name keeps its place and takes
\* the later value
HasName(entries, n) == \E i \in 1..Len(entries) : entries[i][1] = n
ValueOf(entries, n) ==
  entries[Max({i \in 1..Len(entries) : entries[i][1] = n})][2]
MergeDependencies(deps, dev) ==
  [i \in 1..Len(deps) |->
     IF HasName(dev, deps[i][1])
     THEN <<deps[i][1], ValueOf(dev, deps[i][1])>>
     ELSE deps[i]]
  \o SelectSeq(dev, LAMBDA e : ~HasName(deps, e[1]))

----------------------------------------------------------------------------
(* Metadata lookups: out is the string execSync returns, or Throw *)

\* getPackageLicense with a catch block that returns the empty string
GetPackageLicenseNoSentinel(out) ==
  IF out = Throw THEN <<>> ELSE Trim(out.v)

\* getPackageLicense
GetPackageLicense(out) ==
  IF out = Throw THEN UnknownLicense
  ELSE IF Trim(out.v) = <<>> THEN UnknownLicense
  ELSE Trim(out.v)

\* the token classes of [\w-] and [\w.-]
WordTokens == {"o", "r", "x", "-js", "lfdt"}
NameTokens == WordTokens \cup {".js", ".git", "github.com", "gitlab.com"}

\* /github\.com[/:]([\w-]+\/[\w.-]+)/ : the places where it matches
RepoMatches(s) ==
  {i \in 1..Len(s) :
     /\ s[i] = "github.com"
     /\ i + 1 <= Len(s) /\ s[i + 1] \in {"/", ":"}
     /\ LET e1 == RunEndIn(s, i + 2, WordTokens)
        IN /\ e1 >= i + 2
           /\ e1 + 1 <= Len(s) /\ s[e1 + 1] = "/"
           /\ RunEndIn(s, e1 + 2, NameTokens) >= e1 + 2}

\* getPackageRepo
GetPackageRepo(out) ==
  IF out = Throw THEN Null
  ELSE LET s == Trim(out.v)
       IN IF RepoMatches(s) = {} THEN Null
          ELSE LET i == Min(RepoMatches(s))
                   e1 == RunEndIn(s, i + 2, WordTokens)
                   e2 == RunEndIn(s, e1 + 2, NameTokens)
               IN Str(StripDotGit(SubSeq(s, i + 2, e2)))

\* the ".js" and "-js" tokens are three characters each, which is what
\* slice(0, -3) removes
DropLast(s) == SubSeq(s, 1, Len(s) - 1)

\* repoVariations of getGitHubStats
RepoVariations(repo) ==
  << repo,
     IF EndsWith(repo, <<".js">>) THEN repo ELSE repo \o <<".js">>,
     IF EndsWith(repo, <<".js">>) THEN DropLast(repo) ELSE repo,
     IF EndsWith(repo, <<"-js">>) THEN repo ELSE repo \o <<"-js">>,
     IF EndsWith(repo, <<"-js">>) THEN DropLast(repo) ELSE repo >>

\* the current time and a month, in whole days (the code divides
\* milliseconds by 1000 * 60 * 60 * 24 * 30 and floors)
Now == 20000
DaysPerMonth == 30

\* Math.floor((new Date() - new Date(created_at)) / month)
AgeInMonths(created_at) ==
  IF created_at.t = "number" THEN Num((Now - created_at.v) \div DaysPerMonth)
  ELSE NaN

\* the object getGitHubStats returns for a response that parsed; a response
\* that is JSON null makes the property reads throw
StatsOf(data, repoName) ==
  [stars |-> data.stargazers_count,
   forks |-> data.forks_count,
   created |-> data.created_at,
   age |-> AgeInMonths(data.created_at),
   actualRepo |-> repoName]

----------------------------------------------------------------------------
(* The compliance decision of checkPackageCompliance *)

\* the gate with || in place of &&
AdoptionGateEither(githubStats) ==
  \/ GE(githubStats.age, MinAgeMonths)
  \/ GE(githubStats.stars, MinPopularity)
  \/ GE(githubStats.forks, MinPopularity)

AdoptionGate(githubStats) ==
  /\ GE(githubStats.age, MinAgeMonths)
  /\ (GE(githubStats.stars, MinPopularity) \/ GE(githubStats.forks, MinPopularity))

Figures(githubStats) ==
  <<"(", githubStats.stars, " stars, ", githubStats.forks, " forks, ",
    githubStats.age, " months old)">>

IsAutoApproved(license) == license \in AutoApproved

IsConditionallyApproved(license) == license \in APPROVED_LICENSES

\* variants of Decide with one rule changed
DecideGated(license, githubStats) ==
  IF IsAutoApproved(license) \/ IsConditionallyApproved(license)
  THEN IF githubStats # Null
       THEN IF AdoptionGate(githubStats)
            THEN [status |-> "approved",
                  reason |-> <<license, " license with substantial use ">>
                             \o Figures(githubStats)]
            ELSE [status |-> "needs-review",
                  reason |-> <<license, " license but insufficient GitHub adoption ">>
                             \o Figures(githubStats)]
       ELSE [status |-> "needs-review",
             reason |-> <<license,
                          " license (approved) but unable to verify substantial use">>]
  ELSE [status |-> "rejected",
        reason |-> <<license, " license is not on the LFDT approved list">>]

DecideLenient(license, githubStats) ==
  IF IsAutoApproved(license)
  THEN [status |-> "approved",
        reason |-> <<"Apache-2.0 license (automatically approved)">>]
  ELSE IF IsConditionallyApproved(license) \/ license = UnknownLicense
  THEN IF githubStats # Null /\ AdoptionGate(githubStats)
       THEN [status |-> "approved",
             reason |-> <<license, " license with substantial use ">>
                        \o Figures(githubStats)]
       ELSE [status |-> "needs-review",
             reason |-> <<license,
                          " license (approved) but unable to verify substantial use">>]
  ELSE [status |-> "rejected",
        reason |-> <<license, " license is not on the LFDT approved list">>]

\* result.status and result.reason
Decide(license, githubStats) ==
  IF IsAutoApproved(license)
  THEN [status |-> "approved",
        reason |-> <<"Apache-2.0 license (automatically approved)">>]
  ELSE IF IsConditionallyApproved(license)
  THEN IF githubStats # Null
       THEN IF AdoptionGate(githubStats)
            THEN [status |-> "approved",
                  reason |-> <<license, " license with substantial use ">>
                             \o Figures(githubStats)]
            ELSE [status |-> "needs-review",
                  reason |-> <<license, " license but insufficient GitHub adoption ">>
                             \o Figures(githubStats)]
       ELSE [status |-> "needs-review",
             reason |-> <<license,
                          " license (approved) but unable to verify substantial use">>]
  ELSE [status |-> "rejected",
        reason |-> <<license, " license is not on the LFDT approved list">>]

----------------------------------------------------------------------------
(* The program *)

NoCall ==
  [name |-> "", version |-> <<>>, packageSpec |-> <<>>,
   license |-> <<>>, repo |-> Null, githubStats |-> Null]

NoResults == [approved |-> <<>>, needsReview |-> <<>>, rejected |-> <<>>]

Init(argv) ==
  /\ pc = "main"
  /\ args \in argv
  /\ source = <<".">>
  /\ route = "none"
  /\ io = <<>>
  /\ packageJson = Null
  /\ manifestFailed = FALSE
  /\ allDependencies = <<>>
  /\ idx = 0
  /\ cur = NoCall
  /\ varIdx = 1
  /\ trail = <<>>
  /\ results = NoResults
  /\ banner = ""
  /\ exitCode = -1

\* the command line: --help prints the usage and exits 0
ParseArgs ==
  /\ pc = "main"
  /\ IF Len(args) > 0 /\ args[1] \in HelpFlags
     THEN /\ pc' = "exited"
          /\ exitCode' = 0
          /\ UNCHANGED source
     ELSE /\ pc' = "getPackageJson"
          /\ source' = IF Len(args) > 0 THEN args[1] ELSE source
          /\ UNCHANGED exitCode
  /\ UNCHANGED <<args, route, io, packageJson, manifestFailed, allDependencies,
                 idx, cur, varIdx, trail, results, banner>>

\* getPackageJson: the manifest, or the catch block's process.exit(1)
GetPackageJson(env) ==
  /\ pc = "getPackageJson"
  /\ \E fs \in env.fs, gh \in env.gh, curl \in env.curl :
       /\ LET r == ReadPackageJson(source, fs, gh, curl)
          IN IF r = Throw
             THEN /\ manifestFailed' = TRUE
                  /\ exitCode' = 1
                  /\ pc' = "exited"
                  /\ UNCHANGED packageJson
             ELSE /\ packageJson' = r
                  /\ pc' = "merge"
                  /\ UNCHANGED <<manifestFailed, exitCode>>
       /\ io' = ReadAttempts(source, fs, gh, curl)
  /\ route' = IF RoutesToGitHub(source) THEN "github" ELSE "local"
  /\ UNCHANGED <<args, source, allDependencies, idx, cur, varIdx, trail,
                 results, banner>>

\* verifyDependencies up to its loop
MergeAll ==
  /\ pc = "merge"
  /\ packageJson # Null
  /\ allDependencies' =
       MergeDependencies(packageJson.dependencies, packageJson.devDependencies)
  /\ results' = NoResults
  /\ pc' = "loop"
  /\ UNCHANGED <<args, source, route, io, packageJson, manifestFailed, idx, cur,
                 varIdx, trail, banner, exitCode>>

\* a manifest that parsed to null: reading packageJson.dependencies throws
\* and the rejection reaches the .catch of the last lines
TopLevelCatch ==
  /\ pc = "merge"
  /\ packageJson = Null
  /\ exitCode' = 1
  /\ pc' = "exited"
  /\ UNCHANGED <<args, source, route, io, packageJson, manifestFailed,
                 allDependencies, idx, cur, varIdx, trail, results, banner>>

\* the loop takes the next entry and checkPackageCompliance starts
LoopNext ==
  /\ pc = "loop"
  /\ idx < Len(allDependencies)
  /\ idx' = idx + 1
  /\ LET name == allDependencies[idx + 1][1]
         cleanVersion == StripRange(allDependencies[idx + 1][2])
     IN cur' = [NoCall EXCEPT !.name = name, !.version = cleanVersion,
                              !.packageSpec = <<name, "@">> \o cleanVersion]
  /\ varIdx' = 1
  /\ trail' = <<>>
  /\ pc' = "license"
  /\ UNCHANGED <<args, source, route, io, packageJson, manifestFailed,
                 allDependencies, results, banner, exitCode>>

LookupLicense(env) ==
  /\ pc = "license"
  /\ \E out \in env.license :
       /\ cur' = [cur EXCEPT !.license = GetPackageLicense(out)]
       /\ trail' = Append(trail, [op |-> "license", arg |-> StripRange(cur.packageSpec),
                                  failed |-> out = Throw])
  /\ pc' = "repo"
  /\ UNCHANGED <<args, source, route, io, packageJson, manifestFailed,
                 allDependencies, idx, varIdx, results, banner, exitCode>>

LookupRepo(env) ==
  /\ pc = "repo"
  /\ \E out \in env.repo :
       /\ cur' = [cur EXCEPT !.repo = GetPackageRepo(out)]
       /\ trail' = Append(trail, [op |-> "repo", arg |-> StripRange(cur.packageSpec),
                                  failed |-> out = Throw])
  /\ pc' = "stats"
  /\ UNCHANGED <<args, source, route, io, packageJson, manifestFailed,
                 allDependencies, idx, varIdx, results, banner, exitCode>>

\* getGitHubStats: if (!repo) return null
StatsNoRepo ==
  /\ pc = "stats"
  /\ Falsy(cur.repo)
  /\ cur' = [cur EXCEPT !.githubStats = Null]
  /\ pc' = "evaluate"
  /\ UNCHANGED <<args, source, route, io, packageJson, manifestFailed,
                 allDependencies, idx, varIdx, trail, results, banner, exitCode>>

\* the body of the try block throws: execSync fails, the output is no JSON,
\* or it is JSON null and reading data.stargazers_count throws
QueryFails(out) == out = Throw \/ out = Null

\* a loop that breaks where the code continues
LastVariationBreak(i, repo) == i >= 1

\* the for loop has no entry left after this one
LastVariation(i, repo) == i >= Len(RepoVariations(repo))

\* getGitHubStats: one turn of the loop over repoVariations
StatsQuery(env) ==
  /\ pc = "stats"
  /\ ~Falsy(cur.repo)
  /\ LET repoName == RepoVariations(cur.repo.v)[varIdx]
     IN \E out \in env.stats :
          /\ trail' = Append(trail, [op |-> "stats", arg |-> repoName,
                                     failed |-> QueryFails(out)])
          /\ IF QueryFails(out)
             THEN IF LastVariation(varIdx, cur.repo.v)
                  THEN /\ cur' = [cur EXCEPT !.githubStats = Null]
                       /\ pc' = "evaluate"
                       /\ UNCHANGED varIdx
                  ELSE /\ varIdx' = varIdx + 1
                       /\ UNCHANGED <<cur, pc>>
             ELSE /\ cur' = [cur EXCEPT !.githubStats = StatsOf(out, repoName)]
                  /\ pc' = "evaluate"
                  /\ UNCHANGED varIdx
  /\ UNCHANGED <<args, source, route, io, packageJson, manifestFailed,
                 allDependencies, idx, results, banner, exitCode>>

\* the result object of checkPackageCompliance
ResultOf(c) ==
  [name |-> c.name, version |-> c.version, license |-> c.license,
   repo |-> c.repo, githubStats |-> c.githubStats,
   status |-> Decide(c.license, c.githubStats).status,
   reason |-> Decide(c.license, c.githubStats).reason]

\* the switch with the first break missing
PushFallThrough(res, result) ==
  CASE result.status = "approved" ->
         [res EXCEPT !.approved = Append(@, result),
                     !.needsReview = Append(@, result)]
    [] result.status = "needs-review" ->
         [res EXCEPT !.needsReview = Append(@, result)]
    [] result.status = "rejected" ->
         [res EXCEPT !.rejected = Append(@, result)]
    [] OTHER -> res

\* the switch of the loop body
Push(res, result) ==
  CASE result.status = "approved" ->
         [res EXCEPT !.approved = Append(@, result)]
    [] result.status = "needs-review" ->
         [res EXCEPT !.needsReview = Append(@, result)]
    [] result.status = "rejected" ->
         [res EXCEPT !.rejected = Append(@, result)]
    [] OTHER -> res

\* checkPackageCompliance returns and the loop files the result
Evaluate ==
  /\ pc = "evaluate"
  /\ results' = Push(results, ResultOf(cur))
  /\ pc' = "loop"
  /\ UNCHANGED <<args, source, route, io, packageJson, manifestFailed,
                 allDependencies, idx, cur, varIdx, trail, banner, exitCode>>

\* the closing message
Banner(res) ==
  IF Len(res.rejected) > 0 THEN "ERROR"
  ELSE IF Len(res.needsReview) > 0 THEN "WARNING"
  ELSE "SUCCESS"

\* an exit code that fails the run on review items too
ExitCodeStrict(res) ==
  IF Len(res.rejected) > 0 \/ Len(res.needsReview) > 0 THEN 1 ELSE 0

\* process.exit(1) of the ERROR branch; otherwise the process ends with 0
ExitCodeOf(res) == IF Len(res.rejected) > 0 THEN 1 ELSE 0

\* the loop is over: summary, closing message, exit
Finish ==
  /\ pc = "loop"
  /\ idx = Len(allDependencies)
  /\ banner' = Banner(results)
  /\ exitCode' = ExitCodeOf(results)
  /\ pc' = "exited"
  /\ UNCHANGED <<args, source, route, io, packageJson, manifestFailed,
                 allDependencies, idx, cur, varIdx, trail, results>>

Next(env) ==
  \/ ParseArgs
  \/ GetPackageJson(env)
  \/ MergeAll
  \/ TopLevelCatch
  \/ LoopNext
  \/ LookupLicense(env)
  \/ LookupRepo(env)
  \/ StatsNoRepo
  \/ StatsQuery(env)
  \/ Evaluate
  \/ Finish

----------------------------------------------------------------------------
(* Inputs and specifications *)

MaxDeps == 2

NameTable == <<"a", "b", "c", "d">>
Names == {NameTable[i] : i \in 1..MaxDeps}

Reverse(s) == [i \in 1..Len(s) |-> s[Len(s) + 1 - i]]

\* the entries of names with one version range, in table order
Entries(names, range) ==
  [i \in 1..Len(SelectSeq(NameTable, LAMBDA n : n \in names)) |->
     <<SelectSeq(NameTable, LAMBDA n : n \in names)[i], range>>]

Manifest(deps, dev) ==
  [name |-> "project", version |-> "1.0.0",
   dependencies |-> Entries(deps, <<"^", "1.2.3">>),
   devDependencies |-> Reverse(Entries(dev, <<"~", "2.0.0">>))]

Manifests(names) == {Manifest(d, v) : d \in SUBSET names, v \in SUBSET names}

GitHubUrl(tail) ==
  Str(<<"git+https:", "/", "/", "github.com", "/">> \o tail \o <<"\n">>)

\* a repository that is old and popular enough
Established ==
  [stargazers_count |-> Num(50), forks_count |-> Num(5),
   created_at |-> Num(Now - 24 * DaysPerMonth)]

\* the batch: several dependencies, few outcomes per lookup
BatchEnv ==
  [fs |-> {Throw, Null} \cup Manifests(Names),
   gh |-> {Throw},
   curl |-> {Throw},
   license |-> {Throw, Str(<<"Apache-2.0", "\n">>), Str(<<"MIT", "\n">>)},
   repo |-> {Throw, GitHubUrl(<<"o", "/", "r", ".git">>)},
   stats |-> {Throw, Established}]

BatchArgs == { <<>>, << <<"--help">> >> }

BatchInit == Init(BatchArgs)
BatchNext == Next(BatchEnv)
Spec == BatchInit /\ [][BatchNext]_vars

\* one dependency, every license and a grid of repository figures around
\* the thresholds
OnePackage == {Throw, Null, Manifest({"a"}, {})}

OtherLicenses ==
  { <<"GPL-3.0">>, <<"mit">>, <<"UNLICENSED">>, <<"(MIT OR Apache-2.0)">>,
    <<"Apache-2.0", " ", "WITH", " ", "LLVM-exception">>, UnknownLicense }

Counts == {Undefined, Num(0), Num(MinPopularity - 1), Num(MinPopularity), Num(1000)}

Created ==
  {Undefined, Num(Now + 1), Num(Now),
   Num(Now - MinAgeMonths * DaysPerMonth + 1),
   Num(Now - MinAgeMonths * DaysPerMonth),
   Num(Now - 120 * DaysPerMonth)}

Responses ==
  {[stargazers_count |-> s, forks_count |-> f, created_at |-> c] :
     s \in Counts, f \in Counts, c \in Created}

EvalEnv ==
  [fs |-> OnePackage,
   gh |-> {Throw},
   curl |-> {Throw},
   license |-> {Throw, Str(<<"\n">>)}
               \cup {Str(l \o <<"\n">>) :
                       l \in AutoApproved \cup APPROVED_LICENSES \cup OtherLicenses},
   repo |-> {Throw, GitHubUrl(<<"o", "/", "r", ".git">>)},
   stats |-> {Throw} \cup Responses]

EvalInit == Init({ <<>> })
EvalNext == Next(EvalEnv)
SpecEval == EvalInit /\ [][EvalNext]_vars

\* one dependency, every shape of npm's repository.url and of the response
StatsEnv ==
  [fs |-> OnePackage,
   gh |-> {Throw},
   curl |-> {Throw},
   license |-> {Str(<<"MIT", "\n">>)},
   repo |-> {Throw, Str(<<"\n">>),
             GitHubUrl(<<"o", "/", "r", ".git">>),
             GitHubUrl(<<"o", "/", "r", ".js">>),
             GitHubUrl(<<"o", "/", "r", "-js", ".git">>),
             Str(<<"git@", "github.com", ":", "lfdt", "/", "x", ".js", ".git", "\n">>),
             Str(<<"https:", "/", "/", "gitlab.com", "/", "o", "/", "r", "\n">>)},
   stats |-> {Throw, Null, Established,
              [stargazers_count |-> Num(50), forks_count |-> Num(5),
               created_at |-> Undefined],
              [stargazers_count |-> Undefined, forks_count |-> Undefined,
               created_at |-> Undefined],
              [stargazers_count |-> Num(50), forks_count |-> Num(5),
               created_at |-> Num(Now + 1)]}]

StatsInit == Init({ <<>> })
StatsNext == Next(StatsEnv)
SpecStats == StatsInit /\ [][StatsNext]_vars

\* the source selectors
SrcDir == <<"project">>
SrcAbsolute == <<"/", "path", "/", "to", "/", "project">>
SrcRelative == <<".", "/", "project">>
SrcUrl ==
  <<"https:", "/", "/", "github.com", "/", "hashgraph-online", "/", "standards-sdk">>
SrcUrlGit == SrcUrl \o <<".git">>
SrcUrlQuery == SrcUrl \o <<"?", "tab=readme">>
SrcShorthand == <<"hashgraph-online", "/", "standards-sdk">>
SrcDeep == <<"hashgraph-online", "/", "standards-sdk", "/", "tree">>
SrcHost == <<"github.com">>

Sources ==
  {SrcDir, SrcAbsolute, SrcRelative, SrcUrl, SrcUrlGit, SrcUrlQuery,
   SrcShorthand, SrcDeep, SrcHost}

SourceEnv ==
  [fs |-> OnePackage,
   gh |-> {Throw, Null, Manifest({"a"}, {})},
   curl |-> {Throw, Null, Manifest({}, {"b"})},
   license |-> {Throw, Str(<<"MIT", "\n">>)},
   repo |-> {Throw, GitHubUrl(<<"o", "/", "r">>)},
   stats |-> {Throw, Established}]

SourceInit == Init({ <<>>, << <<"-h">> >> } \cup { <<src>> : src \in Sources })
SourceNext == Next(SourceEnv)
SpecSource == SourceInit /\ [][SourceNext]_vars

----------------------------------------------------------------------------
(* Properties *)

Buckets == {"approved", "needsReview", "rejected"}

VerdictOf(b) ==
  CASE b = "approved" -> "approved"
    [] b = "needsReview" -> "needs-review"
    [] b = "rejected" -> "rejected"

\* every result filed so far, with the bucket that holds it
Filed ==
  UNION {{[bucket |-> b, r |-> results[b][i]] : i \in 1..Len(results[b])} : b \in Buckets}

AtLeast(x, n) == x.t = "number" /\ x.v >= n

ApacheLicenses == { <<"Apache-2.0">>, <<"Apache", " ", "2.0">> }

\* C1: a dependency whose license is 'Apache-2.0' or 'Apache 2.0' is filed as
\* approved, with the automatic-approval justification, whatever its
\* repository statistics are (absent, zero, partial or large).
C1_AutoApproved ==
  \A f \in Filed :
    f.r.license \in ApacheLicenses =>
      /\ f.bucket = "approved"
      /\ f.r.status = "approved"
      /\ f.r.reason = <<"Apache-2.0 license (automatically approved)">>

\* an auto-approved license with a brand-new repository without stars or forks
C1_Witness ==
  \E f \in Filed :
    /\ f.r.license = <<"Apache", " ", "2.0">>
    /\ f.bucket = "approved"
    /\ f.r.githubStats # Null
    /\ f.r.githubStats.stars = Num(0)
    /\ f.r.githubStats.forks = Num(0)
    /\ f.r.githubStats.age = Num(0)

\* C2: a dependency whose license is in APPROVED_LICENSES is approved exactly
\* when its statistics are present with age >= 12 and (stars >= 10 or
\* forks >= 10), and needs review in every other case; it is never rejected.
C2_ConditionalApproval ==
  \A f \in Filed :
    f.r.license \in APPROVED_LICENSES =>
      LET S == f.r.githubStats
          passes == /\ S # Null
                    /\ AtLeast(S.age, 12)
                    /\ (AtLeast(S.stars, 10) \/ AtLeast(S.forks, 10))
      IN /\ f.r.status = (IF passes THEN "approved" ELSE "needs-review")
         /\ f.bucket = (IF passes THEN "approved" ELSE "needsReview")

\* an old repository with nine stars and nine forks: age alone does not pass
C2_Witness ==
  \E f \in Filed :
    /\ f.r.license = <<"Public", " ", "Domain">>
    /\ f.bucket = "needsReview"
    /\ f.r.githubStats # Null
    /\ f.r.githubStats.age = Num(120)
    /\ f.r.githubStats.stars = Num(9)
    /\ f.r.githubStats.forks = Num(9)

\* C3: a dependency whose license is neither auto-approved nor in
\* APPROVED_LICENSES, the 'Unknown' sentinel included, is rejected whatever
\* its repository statistics are.
C3_Rejected ==
  \A f \in Filed :
    f.r.license \notin (ApacheLicenses \cup APPROVED_LICENSES) =>
      /\ f.r.status = "rejected"
      /\ f.bucket = "rejected"

\* the sentinel of a failed license lookup, with an old and popular repository
C3_Witness ==
  \E f \in Filed :
    /\ f.r.license = <<"Unknown">>
    /\ f.bucket = "rejected"
    /\ f.r.githubStats # Null
    /\ f.r.githubStats.stars = Num(1000)
    /\ f.r.githubStats.forks = Num(1000)
    /\ f.r.githubStats.age = Num(120)

\* the batch loop ran to its end and the closing message was printed
LoopFinished == pc = "exited" /\ banner # ""

\* C4: after the loop, the closing status is ERROR (Rejected) if the rejected
\* bucket is non-empty, else WARNING (NeedsReview) if the needs-review bucket
\* is non-empty, else SUCCESS; the exit code is 1 exactly in the first case
\* and 0 in the other two.
C4_AggregateStatus ==
  LoopFinished =>
    /\ (Len(results.rejected) > 0) => (banner = "ERROR" /\ exitCode = 1)
    /\ (Len(results.rejected) = 0 /\ Len(results.needsReview) > 0) =>
         (banner = "WARNING" /\ exitCode = 0)
    /\ (Len(results.rejected) = 0 /\ Len(results.needsReview) = 0) =>
         (banner = "SUCCESS" /\ exitCode = 0)

\* review items only: the run warns and still exits 0
C4_Witness ==
  /\ LoopFinished
  /\ Len(results.needsReview) > 1
  /\ Len(results.rejected) = 0
  /\ banner = "WARNING"
  /\ exitCode = 0

NamesOf(entries) == {entries[i][1] : i \in 1..Len(entries)}

\* the entries whose checkPackageCompliance call has returned and been filed
Processed ==
  IF pc \in {"license", "repo", "stats", "evaluate"} THEN idx - 1 ELSE idx

\* C5: at every point of the loop each dependency processed so far is in
\* exactly one bucket, the one of its verdict; after the loop the names in
\* the buckets are the names of dependencies and devDependencies together,
\* each once.
C5_OneBucketEach ==
  /\ \A f \in Filed : f.r.status = VerdictOf(f.bucket)
  /\ \A n \in NamesOf(SubSeq(allDependencies, 1, Processed)) :
       Cardinality({f \in Filed : f.r.name = n}) = 1
  /\ Len(results.approved) + Len(results.needsReview) + Len(results.rejected)
       = Processed
  /\ LoopFinished =>
       /\ {f.r.name : f \in Filed}
            = NamesOf(packageJson.dependencies) \cup NamesOf(packageJson.devDependencies)
       /\ Len(results.approved) + Len(results.needsReview) + Len(results.rejected)
            = Cardinality({f.r.name : f \in Filed})

\* a name declared in both mappings, and two verdicts
C5_Witness ==
  /\ LoopFinished
  /\ NamesOf(packageJson.dependencies) \cap NamesOf(packageJson.devDependencies) # {}
  /\ Len(results.approved) = 1
  /\ Len(results.rejected) = 1

StatsTrail == SelectSeq(trail, LAMBDA e : e.op = "stats")

\* C6: a failed license lookup gives 'Unknown', a failed repository lookup
\* gives null, statistics that fail for every variation give null, no lookup
\* ends the process, and a run that read its manifest ends only after every
\* dependency has been evaluated and filed.
C6_LookupFailuresDegrade ==
  /\ (Len(trail) >= 1 /\ trail[1].failed) => cur.license = <<"Unknown">>
  /\ (Len(trail) >= 2 /\ trail[2].failed) => cur.repo = Null
  /\ (pc = "evaluate" /\ (\A i \in 1..Len(StatsTrail) : StatsTrail[i].failed)) =>
       cur.githubStats = Null
  /\ pc \in {"license", "repo", "stats", "evaluate", "loop"} => exitCode = -1
  /\ (pc = "exited" /\ packageJson # Null) =>
       /\ LoopFinished
       /\ idx = Len(allDependencies)
       /\ Cardinality({f.r.name : f \in Filed}) = Len(allDependencies)

\* every lookup of the first dependency failed, so did the statistics of the
\* second, and both were filed
C6_Witness ==
  /\ LoopFinished
  /\ Len(allDependencies) = 2
  /\ Len(results.rejected) = 2
  /\ results.rejected[1].repo = Null
  /\ results.rejected[2].repo # Null
  /\ results.rejected[2].githubStats = Null
  /\ trail[1].failed
  /\ Len(StatsTrail) = 5
  /\ \A i \in 1..Len(StatsTrail) : StatsTrail[i].failed

\* getPackageJson ran and could not produce a manifest: the selector named
\* no place to read, or the last read it attempted failed
Unreadable ==
  /\ route # "none"
  /\ IF io = <<>> THEN TRUE ELSE io[Len(io)].failed

\* C7: when the manifest cannot be read or parsed the process has exited with
\* status 1 and nothing was looked up, evaluated or filed.
C7_UnreadableManifestIsFatal ==
  Unreadable =>
    /\ pc = "exited"
    /\ exitCode = 1
    /\ idx = 0
    /\ cur = NoCall
    /\ trail = <<>>
    /\ results = NoResults
    /\ banner = ""

\* the shorthand selector with gh and curl both failing
C7_Witness ==
  /\ Unreadable
  /\ source = SrcShorthand
  /\ Len(io) = 2
  /\ io[1].via = "gh" /\ io[1].failed
  /\ io[2].via = "curl" /\ io[2].failed
  /\ exitCode = 1

\* the selector shapes of the usage text: local directory paths, and GitHub
\* URLs or owner/repo shorthands
DocumentedLocal == { <<".">>, SrcAbsolute }
DocumentedGitHub == { SrcUrl, SrcShorthand }

\* C8: a local directory path (the default '.', or /path/to/project) is read
\* from package.json on local disk; a GitHub URL and an owner/repo shorthand
\* are fetched from GitHub.
C8_SelectorRouting ==
  route # "none" =>
    /\ source \in DocumentedLocal => (route = "local" /\ Len(io) = 1 /\ io[1].via = "fs")
    /\ source \in DocumentedGitHub => (route = "github" /\ Len(io) >= 1 /\ io[1].via = "gh")

IsCount(x) == x.t = "number" /\ x.v >= 0

\* C9: the statistics handed to the decision are null or complete: stars,
\* forks and age are all non-negative integers.
C9_StatsAbsentOrComplete ==
  pc = "evaluate" =>
    IF cur.githubStats = Null THEN TRUE
    ELSE /\ IsCount(cur.githubStats.stars)
         /\ IsCount(cur.githubStats.forks)
         /\ IsCount(cur.githubStats.age)

\* C10: the lookups of one dependency are license, repository, then
\* statistics; statistics are queried only with a repository, for the
\* entries of repoVariations in order; the first query that resolves ends
\* the lookup and gives its statistics; null comes only after all have failed.
C10_LookupOrder ==
  /\ Len(trail) >= 1 => trail[1].op = "license"
  /\ Len(trail) >= 2 => trail[2].op = "repo"
  /\ \A i \in 3..Len(trail) :
       /\ trail[i].op = "stats"
       /\ cur.repo # Null
       /\ i - 2 <= 5
       /\ trail[i].arg =
            << cur.repo.v,
               IF EndsWith(cur.repo.v, <<".js">>) THEN cur.repo.v
               ELSE cur.repo.v \o <<".js">>,
               IF EndsWith(cur.repo.v, <<".js">>) THEN DropLast(cur.repo.v)
               ELSE cur.repo.v,
               IF EndsWith(cur.repo.v, <<"-js">>) THEN cur.repo.v
               ELSE cur.repo.v \o <<"-js">>,
               IF EndsWith(cur.repo.v, <<"-js">>) THEN DropLast(cur.repo.v)
               ELSE cur.repo.v >>[i - 2]
       /\ i < Len(trail) => trail[i].failed
  /\ pc \in {"license", "repo"} => Len(trail) = (IF pc = "license" THEN 0 ELSE 1)
  /\ pc = "evaluate" =>
       IF cur.repo = Null THEN Len(trail) = 2 /\ cur.githubStats = Null
       ELSE IF cur.githubStats = Null
       THEN Len(trail) = 7 /\ trail[7].failed
       ELSE /\ Len(trail) >= 3
            /\ ~trail[Len(trail)].failed
            /\ cur.githubStats.actualRepo = trail[Len(trail)].arg

\* the fourth variation, repo-js, resolves after three failures
C10_Witness ==
  /\ pc = "evaluate"
  /\ cur.repo = Str(<<"o", "/", "r">>)
  /\ Len(trail) = 6
  /\ cur.githubStats # Null
  /\ cur.githubStats.actualRepo = <<"o", "/", "r", "-js">>

====
